---- MODULE Spec2Model ----
(***************************************************************************)
(* Model of televideditor.py: the worker's main script (polling window,    *)
(* queue draining, shutdown request) and the job pipeline                  *)
(* process_video_job with its helper functions.                            *)
(*                                                                         *)
(* Times are in milliseconds inside a job (durations, trims, seek          *)
(* positions) and in seconds in the polling loop of the main script.       *)
(***************************************************************************)
EXTENDS Integers, Sequences, FiniteSets, TLC

\* ------------------------------------------------------------------------
\* Bounds of the model
\* ------------------------------------------------------------------------

\* number of jobs the producer ever pushes on job_queue
MaxJobs == 2

\* longest time, in seconds, one queue fetch of the polling loop takes
MaxFetchSecs == 1

\* the count of fetch calls is recorded up to this value
FetchCountCap == 2

\* longest job identifier, in characters, the path functions are evaluated on
MaxIdLen == 3

\* largest source width and height, in pixels, the layout is evaluated on
MaxDim == 16
\* longest list cleanup_files is applied to on its own
MaxListLen == 3

\* ------------------------------------------------------------------------
\* Program constants
\* ------------------------------------------------------------------------

\* COMP_WIDTH = 1080
COMP_WIDTH == 1080

\* COMP_HEIGHT = 1920
COMP_HEIGHT == 1920

\* MEDIA_Y_OFFSET = 0
MEDIA_Y_OFFSET == 0

\* timeout_seconds = 60
timeout_seconds == 60

\* time.sleep(3) between two polls
PollSleepSecs == 3

\* IMAGE_DURATION = 12 (seconds), in milliseconds
IMAGE_DURATION == 12000

\* '-ss', '0.4' of the encode command, in milliseconds
EncodeSs == 400

\* trimmed_duration = final_duration - 0.5, in milliseconds
FrameTrim == 500

\* ------------------------------------------------------------------------
\* Values
\* ------------------------------------------------------------------------

\* Python's None as a job value
None == [id |-> 0, shape |-> "None"]

\* What the producer can push on the queue:
\*   ok      a JSON object with every key the pipeline reads
\*   nokeys  JSON that json.loads accepts and that is truthy, but for which
\*           job_data['chat_id'] / job_data['job_id'] raises (a key is missing)
\*   falsy   JSON whose value is falsy in Python ({} , [] , 0)
\*   badjson a string json.loads rejects
Shapes == {"ok", "nokeys", "falsy", "badjson"}

JobIds == 1..MaxJobs

Payloads == [id : JobIds, shape : Shapes]

\* widths/heights a probe reports (0 stands for a falsy value: 0 or None)
Dims == {0, 1080}

\* durations, in milliseconds, a video probe reports (0: falsy); all even, so
\* that halving is exact
VideoDurations == {0, 300, 8000}

MediaTypes == {"image", "video"}

\* the temporary files of job j
MediaPath(j) == [kind |-> "media", job |-> j]

CaptionPath(j) == [kind |-> "caption", job |-> j]

OutputPath(j) == [kind |-> "output", job |-> j]

FramePath(j) == [kind |-> "frame", job |-> j]

NoPath == [kind |-> "none", job |-> 0]

Range(s) == {s[i] : i \in 1..Len(s)}

Min(a, b) == IF a < b THEN a ELSE b

\* ------------------------------------------------------------------------
\* Python exception classes: the classes an exception is an instance of
\* ------------------------------------------------------------------------
Bases(exc) ==
    CASE exc \in {"ConnectionError", "Timeout", "HTTPError"}
                                -> {exc, "RequestException", "OSError", "Exception"}
      [] exc = "OSError"        -> {"OSError", "Exception"}
      [] exc \in {"PermissionError", "FileNotFoundError", "IsADirectoryError"}
                                -> {exc, "OSError", "Exception"}
      [] exc \in {"KeyError", "IndexError"}
                                -> {exc, "LookupError", "Exception"}
      [] exc = "JSONDecodeError" -> {"JSONDecodeError", "ValueError", "Exception"}
      [] exc \in {"CalledProcessError", "TimeoutExpired"}
                                -> {exc, "SubprocessError", "Exception"}
      [] OTHER                  -> {exc, "Exception"}

\* an except clause naming `classes` catches exc
Caught(exc, classes) == Bases(exc) \cap classes # {}

VARIABLES
    queue,          \* job_queue in Redis; Head is what RPOP returns next
    nextId,         \* id of the next job the producer pushes
    pc,             \* position of the worker in the script
    elapsed,        \* time.time() - start_time, seconds (read by the poll loop)
    first_job,      \* first_job of the main script
    job_data,       \* argument of the running process_video_job, or None
    files_to_clean, \* files_to_clean of the running process_video_job
    disk,           \* the paths that exist in downloads/ and outputs/
    locals,         \* media_path, final_duration, ... of the running job
    deployment_id,  \* deployment_id of stop_railway_deployment (0: not set)
    stopRequests,   \* ids the deploymentStop mutation was posted with
    stopCalls,      \* number of calls of stop_railway_deployment
    mode,           \* "Init", "Draining" (if first_job) or "Probing" (else)
    crashCause,     \* what an uncaught exception ended the process in
    stageLog,       \* stages the running job executed so far, with outcome
    cleanups,       \* job ids cleanup_files was called for by the pipeline
    submitted,      \* job ids submit_result_to_worker was called for
    processed,      \* job ids process_video_job was called with, in order
    finished,       \* job ids whose process_video_job call returned
    popped,         \* payloads RPOP removed from the queue, in order
    fetchInfo,      \* the first fetch: its result and the queue it saw; count
    calc            \* a helper function evaluated on its own: inputs, result

vars == <<queue, nextId, pc, elapsed, first_job, job_data, files_to_clean, disk,
          locals, deployment_id, stopRequests, stopCalls, mode, crashCause,
          stageLog, cleanups, submitted, processed, finished, popped, fetchInfo,
          calc>>

\* the state of the worker
workerVars == <<queue, nextId, pc, elapsed, first_job, job_data, files_to_clean,
                disk, locals, deployment_id, stopRequests, stopCalls, mode,
                crashCause, stageLog, cleanups, submitted, processed, finished,
                popped, fetchInfo>>

mainVars == <<first_job, mode>>

jobVars == <<job_data, files_to_clean, disk, locals, stageLog, cleanups,
             submitted, processed, finished>>

railwayVars == <<deployment_id, stopRequests, stopCalls>>

NoLocals == [media_path |-> NoPath, media_type |-> "none", final_duration |-> 0,
             media_w |-> 0, media_h |-> 0, probe_returned |-> FALSE,
             caption_image_path |-> NoPath, encode_ss |-> 0,
             frame_path |-> NoPath, midpoint |-> 0, failed |-> "none",
             uncaught |-> "none"]

\* The threads of control the script starts, lines 1-9 and 402-434: it
\* imports no threading or server module and the main script runs every
\* call itself, so the main thread is the only one.
StartedThreads == {"main"}

\* no helper function is being evaluated on its own
Idle == [op |-> "idle", done |-> TRUE]

WorkerInit ==
    /\ queue = <<>>
    /\ nextId = 1
    /\ pc = "poll"
    /\ elapsed = 0
    /\ first_job = None
    /\ job_data = None
    /\ files_to_clean = <<>>
    /\ disk = {}
    /\ locals = NoLocals
    /\ deployment_id = 0
    /\ stopRequests = <<>>
    /\ stopCalls = 0
    /\ mode = "Init"
    /\ crashCause = "none"
    /\ stageLog = <<>>
    /\ cleanups = <<>>
    /\ submitted = <<>>
    /\ processed = <<>>
    /\ finished = <<>>
    /\ popped = <<>>
    /\ fetchInfo = [first |-> "pending", initialQueue |-> <<>>, count |-> 0]

Init == WorkerInit /\ calc = Idle

\* ------------------------------------------------------------------------
\* The producer (outside the repository): pushes a job on job_queue
\* ------------------------------------------------------------------------
Enqueue ==
    /\ nextId <= MaxJobs
    /\ pc \notin {"exited", "crashed"}
    /\ \E s \in Shapes : queue' = Append(queue, [id |-> nextId, shape |-> s])
    /\ nextId' = nextId + 1
    /\ UNCHANGED calc
    /\ UNCHANGED <<pc, elapsed, mainVars, jobVars, railwayVars, crashCause,
                   popped, fetchInfo>>

\* ------------------------------------------------------------------------
\* fetch_job_from_redis
\* ------------------------------------------------------------------------

\* outcomes of requests.get + raise_for_status on the rpop endpoint
FetchNet == {"ok", "Timeout", "HTTPError"}

\* `if job:` of the main script
Truthy(j) == j.shape \notin {"None", "falsy"}

\* json.loads(result): the value, or JSONDecodeError
JsonLoadsRaises(raw) == raw.shape = "badjson"

\* variant: the element is read and left in the queue
fetch_job_peeks(q, net) ==
    IF Caught(net, {"RequestException"}) THEN [ret |-> None, q |-> q, pop |-> <<>>]
    ELSE IF q = <<>> THEN [ret |-> None, q |-> q, pop |-> <<>>]
    ELSE IF JsonLoadsRaises(Head(q))
         THEN [ret |-> None, q |-> q, pop |-> <<Head(q)>>]
         ELSE [ret |-> Head(q), q |-> q, pop |-> <<Head(q)>>]

\* variant: an element that cannot be decoded is pushed back on the queue
fetch_job_requeues_undecodable(q, net) ==
    IF Caught(net, {"RequestException"}) THEN [ret |-> None, q |-> q, pop |-> <<>>]
    ELSE IF q = <<>> THEN [ret |-> None, q |-> q, pop |-> <<>>]
    ELSE IF JsonLoadsRaises(Head(q))
         THEN [ret |-> None, q |-> Append(Tail(q), Head(q)), pop |-> <<Head(q)>>]
         ELSE [ret |-> Head(q), q |-> Tail(q), pop |-> <<Head(q)>>]

\* The returned job and the queue afterwards. A transport or HTTP error is
\* caught (RequestException) and gives None; an empty queue gives result null,
\* hence None; otherwise the right-most element is removed and decoded, a
\* JSONDecodeError being caught and giving None.
fetch_job_from_redis(q, net) ==
    IF Caught(net, {"RequestException"}) THEN [ret |-> None, q |-> q, pop |-> <<>>]
    ELSE IF q = <<>> THEN [ret |-> None, q |-> q, pop |-> <<>>]
    ELSE IF JsonLoadsRaises(Head(q))
         THEN [ret |-> None, q |-> Tail(q), pop |-> <<Head(q)>>]
         ELSE [ret |-> Head(q), q |-> Tail(q), pop |-> <<Head(q)>>]

\* bookkeeping of a fetch call that saw queue q and returned r
NoteFetch(q, r) ==
    fetchInfo' =
        [first |-> IF fetchInfo.first # "pending" THEN fetchInfo.first
                   ELSE IF Truthy(r.ret) THEN "job" ELSE "nojob",
         initialQueue |-> IF fetchInfo.first # "pending"
                          THEN fetchInfo.initialQueue ELSE q,
         count |-> Min(fetchInfo.count + 1, FetchCountCap)]

\* ------------------------------------------------------------------------
\* Main script, lines 406-430
\* ------------------------------------------------------------------------

\* while time.time() - start_time < timeout_seconds
PollCondition(t) == t < timeout_seconds

\* one iteration of the polling loop up to the sleep: fetch, `if job: break`
PollFetch ==
    /\ pc = "poll"
    /\ PollCondition(elapsed)
    /\ \E net \in FetchNet, d \in 0..MaxFetchSecs :
         LET r == fetch_job_from_redis(queue, net) IN
         /\ queue' = r.q
         /\ popped' = popped \o r.pop
         /\ NoteFetch(queue, r)
         /\ elapsed' = elapsed + d
         /\ IF Truthy(r.ret)
            THEN first_job' = r.ret /\ pc' = "decide"
            ELSE first_job' = first_job /\ pc' = "poll_sleep"
    /\ UNCHANGED calc
    /\ UNCHANGED <<nextId, mode, jobVars, railwayVars, crashCause>>

\* time.sleep(3)
PollSleep ==
    /\ pc = "poll_sleep"
    /\ elapsed' = elapsed + PollSleepSecs
    /\ pc' = "poll"
    /\ UNCHANGED calc
    /\ UNCHANGED <<queue, nextId, mainVars, jobVars, railwayVars, crashCause,
                   popped, fetchInfo>>

\* the loop condition is false: the window is over
PollExpire ==
    /\ pc = "poll"
    /\ ~PollCondition(elapsed)
    /\ pc' = "decide"
    /\ UNCHANGED calc
    /\ UNCHANGED <<queue, nextId, elapsed, mainVars, jobVars, railwayVars,
                   crashCause, popped, fetchInfo>>

\* the branch `if first_job:` (line 419) takes
DecideTargetAlwaysDrains(fj) == "Draining"

DecideTarget(fj) == IF Truthy(fj) THEN "Draining" ELSE "Probing"

\* where the else branch (lines 429-430) continues: it logs a warning and
\* falls through to the shutdown request of line 432
ElseTargetDrainLoop == "drain_fetch"

ElseTarget == "shutdown"

\* `if first_job:` (line 419). In the draining branch process_video_job is
\* called with first_job; the else branch logs and falls through to the
\* shutdown request. The clock is not read after the polling loop, so the
\* model stops tracking it here.
Decide ==
    /\ pc = "decide"
    /\ mode' = DecideTarget(first_job)
    /\ elapsed' = 0
    /\ IF mode' = "Draining"
       THEN /\ job_data' = first_job
            /\ pc' = "job_start"
       ELSE /\ job_data' = job_data
            /\ pc' = ElseTarget
    /\ UNCHANGED calc
    /\ UNCHANGED <<queue, nextId, first_job, files_to_clean, disk, locals,
                   stageLog, cleanups, submitted, processed, finished,
                   railwayVars, crashCause, popped, fetchInfo>>

\* ------------------------------------------------------------------------
\* process_video_job, lines 292-399
\* ------------------------------------------------------------------------

\* chat_id = job_data['chat_id'], job_id = job_data['job_id'] (lines 294-295,
\* before the try): the exception they raise, or "none"
PayloadKeyError(j) == IF j.shape = "nokeys" THEN "KeyError" ELSE "none"

\* Lines 294-300. An exception here is outside the try statement: it leaves
\* process_video_job and the main script, which has no handler.
JobStart ==
    /\ pc = "job_start"
    /\ processed' = Append(processed, job_data.id)
    /\ stageLog' = <<>>
    /\ IF PayloadKeyError(job_data) # "none"
       THEN /\ pc' = "crashed"
            /\ crashCause' = "job_data"
            /\ UNCHANGED <<files_to_clean, locals>>
       ELSE /\ pc' = "acquire"
            /\ files_to_clean' = <<>>
            /\ locals' = NoLocals
            /\ UNCHANGED crashCause
    /\ UNCHANGED calc
    /\ UNCHANGED <<queue, nextId, elapsed, mainVars, job_data, disk, cleanups,
                   submitted, finished, railwayVars, popped, fetchInfo>>

\* the classes of `except Exception as e:` (line 393)
PipelineExceptValueErrorOnly == {"ValueError"}

PipelineExcept == {"Exception"}

\* the stage after `stage` in the try block
NextStagePc(stage) ==
    CASE stage = "Acquire"       -> "probe"
      [] stage = "Probe"         -> "render"
      [] stage = "RenderCaption" -> "encode"
      [] stage = "Encode"        -> "extract"
      [] stage = "ExtractFrame"  -> "deliver"
      [] OTHER                   -> "cleanup"

\* where process_video_job returns to: both calls (lines 420 and 425) are
\* followed by the next fetch of the `while True` loop
ReturnTarget == "drain_fetch"

\* variant: the failure is logged and the try block goes on with the next stage
StageFailsContinues(stage, exc, loc) ==
    /\ locals' = [loc EXCEPT !.failed = stage]
    /\ stageLog' = Append(stageLog, [stage |-> stage, ok |-> FALSE])
    /\ pc' = NextStagePc(stage)

\* variant: the failure returns from the function without the finally clause
StageFailsSkipsCleanup(stage, exc, loc) ==
    /\ locals' = [loc EXCEPT !.failed = stage]
    /\ stageLog' = Append(stageLog, [stage |-> stage, ok |-> FALSE])
    /\ pc' = ReturnTarget

\* A stage raised exc inside the try, the job's locals being loc: the handler
\* logs it if it catches it, and the finally clause runs in either case.
StageFails(stage, exc, loc) ==
    /\ locals' = [loc EXCEPT !.failed = stage,
                    !.uncaught = IF Caught(exc, PipelineExcept) THEN "none" ELSE exc]
    /\ stageLog' = Append(stageLog, [stage |-> stage, ok |-> FALSE])
    /\ pc' = "cleanup"

\* A stage succeeded, leaving the job's locals as loc.
StageOK(stage, loc, next) ==
    /\ locals' = loc
    /\ stageLog' = Append(stageLog, [stage |-> stage, ok |-> TRUE])
    /\ pc' = next

\* download_telegram_file, lines 192-216. failAt is where an exception is
\* raised: in the getFile call (197-201), in the streaming GET (206-207), while
\* the chunks are written to the opened file (208-210), or nowhere. Every
\* exception is caught and gives None; the file exists once it was opened.
DownloadFailPoints == {"none", "getFile", "get", "write"}

download_telegram_file(j, failAt) ==
    [ret   |-> IF failAt = "none" THEN MediaPath(j) ELSE NoPath,
     wrote |-> IF failAt \in {"none", "write"} THEN {MediaPath(j)} ELSE {}]

\* lines 303-305
Acquire ==
    /\ pc = "acquire"
    /\ \E failAt \in DownloadFailPoints :
         LET r == download_telegram_file(job_data.id, failAt) IN
         /\ disk' = disk \cup r.wrote
         /\ IF r.ret = NoPath
            THEN /\ StageFails("Acquire", "ValueError", locals)
                 /\ UNCHANGED files_to_clean
            ELSE /\ files_to_clean' = Append(files_to_clean, r.ret)
                 /\ StageOK("Acquire", [locals EXCEPT !.media_path = r.ret], "probe")
    /\ UNCHANGED calc
    /\ UNCHANGED <<queue, nextId, elapsed, mainVars, job_data, cleanups,
                   submitted, processed, finished, railwayVars, crashCause,
                   popped, fetchInfo>>

\* get_media_dimensions, lines 218-230. raises: the tool (Image.open, or
\* ffprobe and the parsing of its output) raises; w, h, d: what it reports.
\* For an image the exception propagates; for a video it is caught and the
\* triple is (None, None, None), modelled as (0, 0, 0).
get_media_dimensions(media_type, raises, w, h, d) ==
    IF media_type = "image"
    THEN IF raises THEN [exc |-> "OSError", w |-> 0, h |-> 0, d |-> 0]
         ELSE [exc |-> "none", w |-> w, h |-> h, d |-> IMAGE_DURATION]
    ELSE IF raises THEN [exc |-> "none", w |-> 0, h |-> 0, d |-> 0]
         ELSE [exc |-> "none", w |-> w, h |-> h, d |-> d]

\* variant: the check looks at the width and the height only
AllTruthyDimsOnly(w, h, d) == w # 0 /\ h # 0

\* all([media_w, media_h, final_duration])
AllTruthy(w, h, d) == w # 0 /\ h # 0 /\ d # 0

\* lines 307-309. An opened image has positive width and height. The triple
\* is assigned (line 308) before it is checked (line 309).
Probe ==
    /\ pc = "probe"
    /\ \E mt \in MediaTypes, raises \in BOOLEAN, w \in Dims, h \in Dims,
          d \in VideoDurations :
         /\ mt = "image" => (w # 0 /\ h # 0)
         /\ LET r == get_media_dimensions(mt, raises, w, h, d)
                loc == [locals EXCEPT !.media_type = mt]
                got == [loc EXCEPT !.media_w = r.w, !.media_h = r.h,
                                   !.final_duration = r.d,
                                   !.probe_returned = TRUE]
            IN
            IF r.exc # "none" THEN StageFails("Probe", r.exc, loc)
            ELSE IF ~AllTruthy(r.w, r.h, r.d) THEN StageFails("Probe", "ValueError", got)
            ELSE StageOK("Probe", got, "render")
    /\ UNCHANGED calc
    /\ UNCHANGED <<queue, nextId, elapsed, mainVars, job_data, files_to_clean,
                   disk, cleanups, submitted, processed, finished, railwayVars,
                   crashCause, popped, fetchInfo>>

\* create_caption_image, lines 232-277: the image is saved and its path
\* returned, or the font loading / drawing / saving raises.
create_caption_image(j, raises) ==
    IF raises THEN [exc |-> "OSError", ret |-> NoPath, wrote |-> {}]
    ELSE [exc |-> "none", ret |-> CaptionPath(j), wrote |-> {CaptionPath(j)}]

\* lines 311-312
RenderCaption ==
    /\ pc = "render"
    /\ \E raises \in BOOLEAN :
         LET r == create_caption_image(job_data.id, raises) IN
         /\ disk' = disk \cup r.wrote
         /\ IF r.exc # "none"
            THEN /\ StageFails("RenderCaption", r.exc, locals)
                 /\ UNCHANGED files_to_clean
            ELSE /\ files_to_clean' = Append(files_to_clean, r.ret)
                 /\ StageOK("RenderCaption",
                            [locals EXCEPT !.caption_image_path = r.ret], "encode")
    /\ UNCHANGED calc
    /\ UNCHANGED <<queue, nextId, elapsed, mainVars, job_data, cleanups,
                   submitted, processed, finished, railwayVars, crashCause,
                   popped, fetchInfo>>

\* what subprocess.run of the encode command ends in (line 377): return code
\* 0, another return code, or TimeoutExpired after 300 s
EncodeOutcomes == {"ok", "nonzero", "timeout"}

\* the start trim of the encode command: '-ss', '0.4' (line 367)
EncodeTrim == EncodeSs

\* lines 314-383: output_filepath, the command, its run. ffmpeg -y creates
\* output_filepath when it starts writing, so a failed or timed-out run may
\* leave it behind (wrote).
Encode ==
    /\ pc = "encode"
    /\ \E out \in EncodeOutcomes, wrote \in BOOLEAN :
         /\ out = "ok" => wrote
         /\ disk' = IF wrote THEN disk \cup {OutputPath(job_data.id)} ELSE disk
         /\ IF out = "timeout"
            THEN /\ StageFails("Encode", "TimeoutExpired", locals)
                 /\ UNCHANGED files_to_clean
            ELSE IF out = "nonzero"
            THEN /\ StageFails("Encode", "CalledProcessError", locals)
                 /\ UNCHANGED files_to_clean
            ELSE /\ files_to_clean' = Append(files_to_clean, OutputPath(job_data.id))
                 /\ StageOK("Encode", [locals EXCEPT !.encode_ss = EncodeTrim],
                            "extract")
    /\ UNCHANGED calc
    /\ UNCHANGED <<queue, nextId, elapsed, mainVars, job_data, cleanups,
                   submitted, processed, finished, railwayVars, crashCause,
                   popped, fetchInfo>>

\* what subprocess.run of the frame command ends in (line 285)
ExtractOutcomes == {"ok", "CalledProcessError", "TimeoutExpired"}

\* extract_frame_from_video, lines 279-290: midpoint = duration / 2; both
\* failures are caught and give None. The durations are even, so the integer
\* division is exact.
extract_frame_from_video(j, duration, out, wrote) ==
    [midpoint |-> duration \div 2,
     ret      |-> IF out = "ok" THEN FramePath(j) ELSE NoPath,
     wrote    |-> IF wrote THEN {FramePath(j)} ELSE {}]

\* trimmed_duration = final_duration - 0.5 (line 386)
TrimmedDuration(final_duration) == final_duration - FrameTrim

\* lines 386-389
ExtractFrame ==
    /\ pc = "extract"
    /\ \E out \in ExtractOutcomes, wrote \in BOOLEAN :
         /\ out = "ok" => wrote
         /\ LET r == extract_frame_from_video(job_data.id,
                         TrimmedDuration(locals.final_duration), out, wrote)
                loc == [locals EXCEPT !.midpoint = r.midpoint]
            IN
            /\ disk' = disk \cup r.wrote
            /\ IF r.ret = NoPath
               THEN /\ StageFails("ExtractFrame", "ValueError", loc)
                    /\ UNCHANGED files_to_clean
               ELSE /\ files_to_clean' = Append(files_to_clean, r.ret)
                    /\ StageOK("ExtractFrame", [loc EXCEPT !.frame_path = r.ret],
                               "deliver")
    /\ UNCHANGED calc
    /\ UNCHANGED <<queue, nextId, elapsed, mainVars, job_data, cleanups,
                   submitted, processed, finished, railwayVars, crashCause,
                   popped, fetchInfo>>

\* what the upload ends in: success, a requests exception, or an OSError
\* when the two files are opened (line 171)
SubmitOutcomes == {"ok", "ConnectionError", "Timeout", "HTTPError", "OSError"}

\* submit_result_to_worker, lines 166-188: True, False (a RequestException is
\* caught), or the exception it lets through
submit_result_to_worker(out) ==
    IF out = "ok" THEN [exc |-> "none", ret |-> TRUE]
    ELSE IF "RequestException" \in Bases(out) THEN [exc |-> "none", ret |-> FALSE]
    ELSE [exc |-> out, ret |-> FALSE]

\* line 391: the return value is not used
Deliver ==
    /\ pc = "deliver"
    /\ submitted' = Append(submitted, job_data.id)
    /\ \E out \in SubmitOutcomes :
         LET r == submit_result_to_worker(out) IN
         IF r.exc # "none" THEN StageFails("Deliver", r.exc, locals)
         ELSE IF r.ret THEN StageOK("Deliver", locals, "cleanup")
         ELSE /\ locals' = [locals EXCEPT !.failed = "Deliver"]
              /\ stageLog' = Append(stageLog, [stage |-> "Deliver", ok |-> FALSE])
              /\ pc' = "cleanup"
    /\ UNCHANGED calc
    /\ UNCHANGED <<queue, nextId, elapsed, mainVars, job_data, files_to_clean,
                   disk, cleanups, processed, finished, railwayVars, crashCause,
                   popped, fetchInfo>>

\* what os.remove may raise on a path os.path.exists reported (line 62): the
\* file is protected, was removed in between, or is a directory
RemoveErrors == {"PermissionError", "FileNotFoundError", "IsADirectoryError"}

\* variant: the handler names FileNotFoundError only
RemoveExceptMissingOnly == {"FileNotFoundError"}

\* except OSError (line 64)
RemoveExcept == {"OSError"}

\* variant: the whole working directories are emptied
cleanup_files_wipes_all(file_list, d, bad) ==
    [disk |-> {}, log |-> <<>>, exc |-> "none"]

\* cleanup_files, lines 57-65: the disk after the loop, the lines it logged
\* and the exception that left it. bad gives, for the paths whose os.remove
\* raises, what it raises. A falsy or missing path is skipped (line 60).
RECURSIVE cleanup_files(_, _, _)
cleanup_files(file_list, d, bad) ==
    IF file_list = <<>> THEN [disk |-> d, log |-> <<>>, exc |-> "none"]
    ELSE LET file_path == Head(file_list) IN
         IF ~(file_path # NoPath /\ file_path \in d)
         THEN cleanup_files(Tail(file_list), d, bad)
         ELSE IF file_path \notin DOMAIN bad
         THEN LET r == cleanup_files(Tail(file_list), d \ {file_path}, bad) IN
              [r EXCEPT !.log = <<[level |-> "info", path |-> file_path]>> \o r.log]
         ELSE LET after == IF bad[file_path] = "FileNotFoundError"
                           THEN d \ {file_path} ELSE d
              IN
              IF Caught(bad[file_path], RemoveExcept)
              THEN LET r == cleanup_files(Tail(file_list), after, bad) IN
                   [r EXCEPT !.log = <<[level |-> "error", path |-> file_path]>> \o r.log]
              ELSE [disk |-> after, log |-> <<>>, exc |-> bad[file_path]]

\* The finally clause (lines 397-399), then the return to the caller, or the
\* propagation of an exception the handler did not catch. The locals of the
\* call end with it.
Cleanup ==
    /\ pc = "cleanup"
    /\ cleanups' = Append(cleanups, job_data.id)
    /\ job_data' = None
    /\ files_to_clean' = <<>>
    /\ locals' = NoLocals
    /\ stageLog' = <<>>
    /\ \E paths \in SUBSET Range(files_to_clean), kind \in RemoveErrors :
         LET r == cleanup_files(files_to_clean, disk, [f \in paths |-> kind]) IN
         /\ disk' = r.disk
         /\ IF r.exc # "none"
            THEN /\ pc' = "crashed"
                 /\ crashCause' = "cleanup_files"
                 /\ UNCHANGED finished
            ELSE IF locals.uncaught = "none"
            THEN /\ pc' = ReturnTarget
                 /\ finished' = Append(finished, job_data.id)
                 /\ UNCHANGED crashCause
            ELSE /\ pc' = "crashed"
                 /\ crashCause' = locals.failed
                 /\ UNCHANGED finished
    /\ UNCHANGED calc
    /\ UNCHANGED <<queue, nextId, elapsed, mainVars, submitted, processed,
                   railwayVars, popped, fetchInfo>>

\* ------------------------------------------------------------------------
\* Main script, lines 422-428: the draining loop
\* ------------------------------------------------------------------------
DrainFetch ==
    /\ pc = "drain_fetch"
    /\ \E net \in FetchNet :
         LET r == fetch_job_from_redis(queue, net) IN
         /\ queue' = r.q
         /\ popped' = popped \o r.pop
         /\ NoteFetch(queue, r)
         /\ IF Truthy(r.ret)
            THEN job_data' = r.ret /\ pc' = "job_start"
            ELSE job_data' = job_data /\ pc' = "shutdown"
    /\ UNCHANGED calc
    /\ UNCHANGED <<nextId, elapsed, mainVars, files_to_clean, disk, locals,
                   stageLog, cleanups, submitted, processed, finished,
                   railwayVars, crashCause>>

\* ------------------------------------------------------------------------
\* stop_railway_deployment, lines 75-137, and the end of the script
\* ------------------------------------------------------------------------

\* ids the deployment lookup can return
DeploymentIds == {1, 2}

\* What the lookup (lines 110-113) ends in: the id, or the exception raised by
\* the POST (ConnectionError, Timeout), by raise_for_status (HTTPError), or by
\* data['data']['service']['deployments']['edges'][0]['node']['id'] on a body
\* without the id: KeyError (a key is missing), IndexError (edges is empty),
\* TypeError (data or service is null, as in a GraphQL error response).
LookupOutcomes == {"ok", "ConnectionError", "Timeout", "HTTPError", "KeyError",
                   "IndexError", "TypeError"}

\* except (requests.exceptions.RequestException, KeyError, IndexError), line 115
LookupExcept == {"RequestException", "KeyError", "IndexError"}

\* variant: the handler of the lookup has no `return`
LookupFailTargetFallsThrough == "stop_send"

\* where the handler of the lookup leaves the function: `return`, line 119
LookupFailTarget == "exiting"

\* line 433 and lines 80-119. configured: RAILWAY_API_TOKEN and
\* RAILWAY_SERVICE_ID are both set (line 84); when they are not, the function
\* returns before any request.
StopLookup ==
    /\ pc = "shutdown"
    /\ stopCalls' = stopCalls + 1
    /\ \E configured \in BOOLEAN, out \in LookupOutcomes, id \in DeploymentIds :
         IF ~configured
         THEN /\ pc' = "exiting"
              /\ UNCHANGED <<deployment_id, crashCause>>
         ELSE IF out = "ok"
         THEN /\ deployment_id' = id
              /\ pc' = "stop_send"
              /\ UNCHANGED crashCause
         ELSE /\ UNCHANGED deployment_id
              /\ IF Caught(out, LookupExcept)
                 THEN pc' = LookupFailTarget /\ UNCHANGED crashCause
                 ELSE pc' = "crashed" /\ crashCause' = "stop_railway_deployment"
    /\ UNCHANGED calc
    /\ UNCHANGED <<queue, nextId, elapsed, mainVars, jobVars, stopRequests,
                   popped, fetchInfo>>

\* what the stop request (lines 131-132) ends in
StopOutcomes == {"ok", "ConnectionError", "Timeout", "HTTPError"}

\* except requests.exceptions.RequestException, line 134
StopExcept == {"RequestException"}

\* lines 121-137
StopSend ==
    /\ pc = "stop_send"
    /\ stopRequests' = Append(stopRequests, deployment_id)
    /\ \E out \in StopOutcomes :
         IF out = "ok" \/ Caught(out, StopExcept)
         THEN pc' = "exiting" /\ UNCHANGED crashCause
         ELSE pc' = "crashed" /\ crashCause' = "stop_railway_deployment"
    /\ UNCHANGED calc
    /\ UNCHANGED <<queue, nextId, elapsed, mainVars, jobVars, deployment_id,
                   stopCalls, popped, fetchInfo>>

\* line 434: the script ends
Exit ==
    /\ pc = "exiting"
    /\ pc' = "exited"
    /\ UNCHANGED calc
    /\ UNCHANGED <<queue, nextId, elapsed, mainVars, jobVars, railwayVars,
                   crashCause, popped, fetchInfo>>

Next ==
    \/ Enqueue
    \/ PollFetch
    \/ PollSleep
    \/ PollExpire
    \/ Decide
    \/ JobStart
    \/ Acquire
    \/ Probe
    \/ RenderCaption
    \/ Encode
    \/ ExtractFrame
    \/ Deliver
    \/ Cleanup
    \/ DrainFetch
    \/ StopLookup
    \/ StopSend
    \/ Exit

Spec == Init /\ [][Next]_vars

\* ------------------------------------------------------------------------
\* The helper functions evaluated on their own: calc holds the inputs, and
\* the result once the function has been applied
\* ------------------------------------------------------------------------

NoOut == <<>>

\* File names are sequences of characters; the fixed parts of a name
\* (directory and prefix, suffix) are written as one element each.
IdChars == {"a", "."}

\* job identifiers: non-empty strings
JobIdStrings == UNION {[1..n -> IdChars] : n \in 1..MaxIdLen}

\* os.path.splitext(file_path)[1] of the path Telegram reports: empty, or a
\* dot followed by characters other than a dot
Extensions == {<<>>, <<".", "a">>}

\* os.path.join(DOWNLOAD_PATH, f"{job_id}{file_extension}"), line 204
save_path(job_id, file_extension) == <<"downloads/">> \o job_id \o file_extension

\* os.path.join(OUTPUT_PATH, f"caption_{job_id}.png"), line 274
caption_image_path(job_id) == <<"outputs/caption_">> \o job_id \o <<".png">>

\* os.path.join(OUTPUT_PATH, f"output_{job_id}.mp4"), line 314
output_filepath(job_id) == <<"outputs/output_">> \o job_id \o <<".mp4">>

\* os.path.join(OUTPUT_PATH, f"frame_{job_id}.jpg"), line 281
frame_path(job_id) == <<"outputs/frame_">> \o job_id \o <<".jpg">>

\* the temporary files the pipeline creates for a job
JobPaths(job_id, file_extension) ==
    {save_path(job_id, file_extension), caption_image_path(job_id),
     output_filepath(job_id), frame_path(job_id)}

PathInputs == [op : {"paths"}, done : {FALSE}, id1 : JobIdStrings,
               ext1 : Extensions, id2 : JobIdStrings, ext2 : Extensions,
               out : {NoOut}]

\* the paths of two jobs
ApplyPaths ==
    /\ calc.op = "paths"
    /\ ~calc.done
    /\ calc' = [calc EXCEPT !.done = TRUE,
                  !.out = <<JobPaths(calc.id1, calc.ext1),
                            JobPaths(calc.id2, calc.ext2)>>]
    /\ UNCHANGED workerVars

\* int(x) for x = num / den with den > 0: truncation toward zero
IntOf(num, den) == IF num >= 0 THEN num \div den ELSE -((-num) \div den)

\* scale_ratio = COMP_WIDTH / media_w; scaled_media_h = int(media_h *
\* scale_ratio), lines 315-316. The quotient is a float: when the exact
\* product is a whole number and COMP_WIDTH / media_w is not, the rounded
\* product may fall just below it (slip), and int() then gives one less.
scaled_media_h(media_w, media_h, slip) ==
    LET exact == IntOf(media_h * COMP_WIDTH, media_w)
        whole == (media_h * COMP_WIDTH) % media_w = 0
        inexactRatio == COMP_WIDTH % media_w # 0
    IN IF slip /\ whole /\ inexactRatio THEN exact - 1 ELSE exact

\* variant: the height is not halved
media_y_pos_full_height(scaled_h) ==
    IntOf(COMP_HEIGHT - 2 * scaled_h + 2 * MEDIA_Y_OFFSET, 2)

\* media_y_pos = int((COMP_HEIGHT / 2 - scaled_media_h / 2) + MEDIA_Y_OFFSET),
\* line 317
media_y_pos(scaled_h) ==
    IntOf(COMP_HEIGHT - scaled_h + 2 * MEDIA_Y_OFFSET, 2)

\* the width the scale filter gives the media: scale={COMP_WIDTH}:-1, line 341
ScaleFilterWidth == COMP_WIDTH

\* the layout of lines 315-317 and 341-352
Plan(media_w, media_h, slip) ==
    LET sh == scaled_media_h(media_w, media_h, slip) IN
    [scaled_w |-> ScaleFilterWidth, scaled_h |-> sh, y |-> media_y_pos(sh)]

PlanInputs == [op : {"plan"}, done : {FALSE}, w : 1..MaxDim, h : 1..MaxDim,
               slip : BOOLEAN, out : {NoOut}]

ApplyPlan ==
    /\ calc.op = "plan"
    /\ ~calc.done
    /\ calc' = [calc EXCEPT !.done = TRUE, !.out = Plan(calc.w, calc.h, calc.slip)]
    /\ UNCHANGED workerVars

\* cleanup_files on its own: the list it is given (recorded paths, a falsy
\* entry, repetitions), the files that exist, and the removals that raise
ListedPaths == {NoPath, MediaPath(1), OutputPath(1)}

FileLists == UNION {[1..n -> ListedPaths] : n \in 0..MaxListLen}

RemoveFaults ==
    UNION {[paths -> RemoveErrors] : paths \in SUBSET (ListedPaths \ {NoPath})}

CleanupInputs ==
    [op : {"cleanup"}, done : {FALSE}, file_list : FileLists,
     d : SUBSET (ListedPaths \ {NoPath}), bad : RemoveFaults, out : {NoOut}]

ApplyCleanup ==
    /\ calc.op = "cleanup"
    /\ ~calc.done
    /\ calc' = [calc EXCEPT !.done = TRUE,
                  !.out = cleanup_files(calc.file_list, calc.d, calc.bad)]
    /\ UNCHANGED workerVars

CalcInputs == PathInputs \cup PlanInputs \cup CleanupInputs

InitFn == WorkerInit /\ calc \in CalcInputs

NextFn ==
    \/ ApplyPaths
    \/ ApplyPlan
    \/ ApplyCleanup

SpecFn == InitFn /\ [][NextFn]_vars

\* ------------------------------------------------------------------------
\* Properties
\* ------------------------------------------------------------------------

\* the stages of the try block, in the order of the source
StageOrder == <<"Acquire", "Probe", "RenderCaption", "Encode", "ExtractFrame",
                "Deliver">>

StageNames == Range(StageOrder)

\* positions inside the try/finally of process_video_job
PipelinePcs == {"acquire", "probe", "render", "encode", "extract", "deliver",
                "cleanup"}

Front(seq) == SubSeq(seq, 1, Len(seq) - 1)

IsPrefix(a, b) == Len(a) <= Len(b) /\ SubSeq(b, 1, Len(a)) = a

NoDuplicates(seq) == \A i, k \in 1..Len(seq) : i # k => seq[i] # seq[k]

Ids(seq) == [i \in 1..Len(seq) |-> seq[i].id]

\* the calls of process_video_job that got past lines 294-295 into the try
Entered == IF crashCause = "job_data" THEN Front(processed) ELSE processed

\* C1: after any run of process_video_job, whatever stage failed, none of the
\* files created during that job exists on disk any more: no path on disk
\* belongs to a job whose run has ended (its finally clause has run).
C1_NoFileLeftAfterRun == \A f \in disk : f.job \notin Range(cleanups)

C3_DeliverOnlyAfterFiveOnce ==
    /\ NoDuplicates(submitted)
    /\ NoDuplicates(processed)
    /\ \A j \in Range(submitted) : \A i \in 1..Len(queue) : queue[i].id # j
    /\ \A j \in Range(submitted) : j \in Range(processed)
    /\ \A i \in 1..Len(stageLog) :
         stageLog[i].stage = "Deliver" =>
            /\ i = 6
            /\ \A k \in 1..5 : stageLog[k].ok /\ stageLog[k].stage = StageOrder[k]
            /\ submitted[Len(submitted)] = job_data.id
    /\ (job_data # None /\ job_data.id \in Range(submitted)) =>
            (Len(stageLog) = 6 /\ pc = "cleanup")

\* C3 witness: a delivery failed for the second job, after an earlier job was
\* delivered; the job is on its way to cleanup.
C3_Witness ==
    /\ pc = "cleanup"
    /\ Len(stageLog) = 6
    /\ ~stageLog[6].ok
    /\ Len(submitted) = 2

\* C4: a failure of any stage ends only that job: the exception is handled,
\* the finally clause runs, process_video_job returns to the main loop at its
\* next fetch, and the process never ends because of a stage failure.
C4_StageFailureIsJobScoped ==
    /\ [](locals.failed # "none" => (pc = "cleanup" /\ locals.uncaught = "none"))
    /\ [](pc = "crashed" => crashCause \notin StageNames)
    /\ [][(pc = "cleanup" /\ locals.failed # "none" /\ pc' # pc)
            => (pc' = "drain_fetch" /\ job_data' = None
                /\ finished' = Append(finished, job_data.id))]_vars

\* C4 witness: the first job failed before delivery and the worker has
\* fetched the next job after it.
C4_Witness ==
    /\ pc = "job_start"
    /\ Len(finished) = 1
    /\ submitted = <<>>
    /\ Len(processed) = 1

\* positions from the shutdown request to the end of the script
ShutdownPcs == {"shutdown", "stop_send", "exiting", "exited"}

\* C5 as stated: on start exactly one queue fetch is performed, and the branch
\* taken follows from the result of that first fetch alone.
C5_SingleInitialFetch ==
    /\ pc = "decide" => fetchInfo.count = 1
    /\ mode = "Draining" => fetchInfo.first = "job"
    /\ mode = "Probing" => fetchInfo.first = "nojob"

\* C5 amended: on start the worker fetches at least once and keeps polling
\* until a fetch returns a job or the polling window (timeout_seconds) is
\* over; the branch is chosen once, when the polling loop has ended, from
\* first_job alone (a job: Draining, none: Probing, and none only when the
\* window is over); it never changes afterwards, and nothing of either branch
\* happens before it is chosen.
C5_DecisionOnceAfterPolling ==
    /\ [](pc = "decide" =>
            /\ fetchInfo.count >= 1
            /\ Truthy(first_job) \/ elapsed >= timeout_seconds)
    /\ [](mode = "Init" => (processed = <<>> /\ stopCalls = 0
                            /\ pc \in {"poll", "poll_sleep", "decide"}))
    /\ [](mode = "Draining" =>
            /\ Truthy(first_job)
            /\ processed # <<>> => processed[1] = first_job.id)
    /\ [](mode = "Probing" => (~Truthy(first_job) /\ pc \notin PipelinePcs
                               /\ pc # "drain_fetch"))
    /\ [][mode # "Init" => (mode' = mode /\ first_job' = first_job)]_vars

\* C5 witness: the worker is draining although its first fetch returned no
\* job: a later fetch of the polling window returned one.
C5_Witness ==
    /\ mode = "Draining"
    /\ fetchInfo.first = "nojob"
    /\ pc = "acquire"

InitialJobs == Ids(SelectSeq(fetchInfo.initialQueue, LAMBDA x : x.shape = "ok"))

\* the well-formed jobs passed to the pipeline
ProcessedInitialJobs ==
    SelectSeq(processed, LAMBDA j : j \in Range(InitialJobs))

\* C7: in Draining, when host shutdown is requested, every job that was in the
\* queue at the moment of the initial fetch has been fetched and passed to the
\* pipeline, in queue order.
C7_DrainsInitialQueue ==
    (mode = "Draining" /\ stopCalls > 0) => ProcessedInitialJobs = InitialJobs

\* C8: the frame is extracted at the midpoint of the trimmed duration, the
\* trimmed duration being the composition duration minus the start trim the
\* encode command cuts: twice the seek position is final_duration minus the
\* encode trim.
C8_MidpointOfTrimmedDuration ==
    pc = "deliver" => 2 * locals.midpoint = locals.final_duration - locals.encode_ss

\* the jobs the fetches returned to the main script, in order
Returned == Ids(SelectSeq(popped, LAMBDA x : Truthy(x) /\ ~JsonLoadsRaises(x)))

\* C9: jobs are processed one at a time in the order the queue yields them:
\* the jobs passed to the pipeline are the returned ones, in order; at most
\* one job is fetched but not yet processed, and then no job is in progress
\* and every earlier job's cleanup has run; at most one job is in progress;
\* and a fetch happens only when no job is in progress.
C9_OneJobAtATime ==
    /\ [](IsPrefix(processed, Returned))
    /\ [](Len(Returned) <= Len(processed) + 1)
    /\ [](Len(Returned) > Len(processed) =>
            (pc \in {"decide", "job_start"} /\ cleanups = Entered))
    /\ [](Len(cleanups) <= Len(processed) /\ Len(processed) <= Len(cleanups) + 1)
    /\ [](pc \in PipelinePcs <=> Len(Entered) = Len(cleanups) + 1)
    /\ [][(popped' # popped \/ fetchInfo' # fetchInfo) =>
            (cleanups = Entered /\ pc \notin PipelinePcs)]_vars

\* C9 witness: the second job has been fetched after the first job's pipeline
\* and cleanup ended, and is not yet in progress.
C9_Witness ==
    /\ pc = "job_start"
    /\ Len(Returned) = 2
    /\ processed = <<Returned[1]>>
    /\ cleanups = processed

\* C10: whatever the deployment lookup or the stop request ends in,
\* stop_railway_deployment returns normally and the worker reaches its exit:
\* once it was called, the script is in it or past it, and has not ended in
\* an exception it raised.
C10_StopFailureReturns ==
    stopCalls > 0 => (pc \in {"stop_send", "exiting", "exited"}
                      /\ crashCause # "stop_railway_deployment")

Abs(x) == IF x < 0 THEN -x ELSE x

\* C11: for two jobs with different job identifiers, the sets of temporary
\* file paths the pipeline creates are disjoint.
C11_PathsDisjoint ==
    (calc.op = "paths" /\ calc.done /\ calc.id1 # calc.id2) =>
        calc.out[1] \cap calc.out[2] = {}

\* C12: for every source width and height > 0, the scaled media width is the
\* canvas width exactly, the planned scaled height is within one pixel of
\* h * 1080 / w, and the vertical position puts the centre of the scaled
\* media within one pixel of the canvas centre, 960 + MEDIA_Y_OFFSET.
C12_Geometry ==
    (calc.op = "plan" /\ calc.done) =>
        /\ calc.out.scaled_w = COMP_WIDTH
        /\ Abs(calc.out.scaled_h * calc.w - calc.h * COMP_WIDTH) <= calc.w
        /\ Abs(2 * calc.out.y + calc.out.scaled_h
               - (COMP_HEIGHT + 2 * MEDIA_Y_OFFSET)) <= 2

\* C12 witness: a tall source, whose scaled height exceeds the canvas height
\* and is odd, so that the position is negative and was truncated.
C12_Witness ==
    /\ calc.op = "plan"
    /\ calc.done
    /\ calc.out.scaled_h > COMP_HEIGHT
    /\ calc.out.scaled_h % 2 = 1
    /\ calc.out.y < 0

\* ------------------------------------------------------------------------
\* C13
\* ------------------------------------------------------------------------
ProbedTriple == <<locals.media_w, locals.media_h, locals.final_duration>>

AllPositive(t) == \A i \in 1..3 : t[i] > 0

AllNone(t) == \A i \in 1..3 : t[i] = 0

\* C13 as stated: whenever get_media_dimensions has returned (it did not
\* raise), the triple it returned has a positive width, height and duration,
\* or is the failure triple (None, None, None); never a triple of which only
\* some values are usable.
C13_ReturnedTripleAllOrNothing ==
    locals.probe_returned => (AllPositive(ProbedTriple) \/ AllNone(ProbedTriple))

\* C13 amended: get_media_dimensions hands back what the tool reports without
\* validating it, so a returned triple may be partly usable; an image gives a
\* fully positive triple or an exception. It is the all() check of the pipeline
\* that rejects every triple with a zero or None value: RenderCaption and the
\* stages after it are reached only with width, height and duration all
\* positive, and a job whose triple is not fully positive fails in Probe.
C13_PipelineRejectsPartialTriple ==
    /\ (pc \in {"render", "encode", "extract", "deliver"}
         \/ \E i \in 1..Len(stageLog) : stageLog[i].stage = "RenderCaption")
           => (locals.probe_returned /\ AllPositive(ProbedTriple))
    /\ (locals.probe_returned /\ locals.media_type = "image")
           => (AllPositive(ProbedTriple) /\ locals.final_duration = IMAGE_DURATION)
    /\ (locals.probe_returned /\ ~AllPositive(ProbedTriple))
           => (pc = "cleanup" /\ locals.failed = "Probe" /\ locals.uncaught = "none")

\* a probed video got past the check of the pipeline
C13_Witness ==
    /\ pc = "render"
    /\ locals.probe_returned
    /\ AllPositive(ProbedTriple)
    /\ locals.media_type = "video"

\* the rejected partial triple of C13
C13_PartialRejected ==
    /\ pc = "cleanup"
    /\ locals.failed = "Probe"
    /\ locals.probe_returned
    /\ ~AllPositive(ProbedTriple)
    /\ ~AllNone(ProbedTriple)

\* ------------------------------------------------------------------------
\* C14
\* ------------------------------------------------------------------------
\* C14: a liveness responder is running from before the fetch decision until
\* shutdown is requested, that is in every state of the main script before
\* stop_railway_deployment is called: while polling, while deciding and
\* while jobs are drained.
C14_ResponderUpUntilShutdown ==
    pc \notin ShutdownPcs \cup {"crashed"} => "liveness_responder" \in StartedThreads

\* ------------------------------------------------------------------------
\* C15
\* ------------------------------------------------------------------------
\* the file a stage hands to the pipeline when it succeeds
StageOutput(stage, j) ==
    CASE stage = "Acquire"       -> <<MediaPath(j)>>
      [] stage = "RenderCaption" -> <<CaptionPath(j)>>
      [] stage = "Encode"        -> <<OutputPath(j)>>
      [] stage = "ExtractFrame"  -> <<FramePath(j)>>
      [] OTHER                   -> <<>>

RECURSIVE SucceededOutputs(_, _)
SucceededOutputs(log, j) ==
    IF log = <<>> THEN <<>>
    ELSE (IF Head(log).ok THEN StageOutput(Head(log).stage, j) ELSE <<>>)
         \o SucceededOutputs(Tail(log), j)

AllOutputs(j) == <<MediaPath(j), CaptionPath(j), OutputPath(j), FramePath(j)>>

C15_RecordedAtCleanup ==
    pc = "cleanup" =>
        /\ files_to_clean = SucceededOutputs(stageLog, job_data.id)
        /\ IsPrefix(files_to_clean, AllOutputs(job_data.id))
        /\ locals.failed = "Probe" =>
              /\ files_to_clean = <<MediaPath(job_data.id)>>
              /\ job_data.id \notin Range(submitted)

C15_CleanupStep ==
    pc = "cleanup" =>
        /\ disk \ disk' \subseteq Range(files_to_clean)
        /\ locals.failed = "Probe" =>
              /\ disk \ disk' \subseteq {MediaPath(job_data.id)}
              /\ submitted' = submitted

\* C15: when cleanup runs, files_to_clean holds exactly the output paths of
\* the stages of this job that succeeded, each once and in stage order; the
\* cleanup step removes no file that is not recorded; and after a failed
\* probe the list is the downloaded source alone, nothing else is removed and
\* the job is never delivered.
C15_CleanupListIsSucceededOutputs ==
    []C15_RecordedAtCleanup /\ [][C15_CleanupStep]_vars

\* cleanup is about to run after a failed probe, with a file of an earlier
\* job still on disk
C15_Witness ==
    /\ pc = "cleanup"
    /\ locals.failed = "Probe"
    /\ files_to_clean = <<MediaPath(job_data.id)>>
    /\ MediaPath(job_data.id) \in disk
    /\ disk # {MediaPath(job_data.id)}

\* ------------------------------------------------------------------------
\* C16
\* ------------------------------------------------------------------------
\* C16: whatever the payloads are and however the jobs end, the process ends
\* only after it called stop_railway_deployment exactly once, and shutdown is
\* never requested while a job is being processed. (The safety part of "the
\* worker eventually calls stop_railway_deployment exactly once and then
\* exits": a process that has ended without the call will never make it.)
C16_EndsOnlyAfterOneStopCall ==
    /\ pc \in {"exited", "crashed"} => stopCalls = 1
    /\ stopCalls <= 1
    /\ pc \in ShutdownPcs => job_data = None

\* ------------------------------------------------------------------------
\* C17
\* ------------------------------------------------------------------------
\* the removed entries the main script never sees as a job: json.loads
\* raised on them, or they decode to a falsy value
Dropped == SelectSeq(popped, LAMBDA x : ~Truthy(x) \/ JsonLoadsRaises(x))

QueuedIds == {queue[i].id : i \in 1..Len(queue)}

\* no call of process_video_job is pending or running
Settled == pc \notin {"decide", "job_start"}

\* C17 as stated: every entry the worker removed from the queue is passed to
\* process_video_job exactly once (at the latest by the next call), none is
\* dropped, none is processed twice and none is back on the queue.
C17_EveryPoppedProcessedOnce ==
    /\ NoDuplicates(processed)
    /\ IsPrefix(processed, Ids(popped))
    /\ Settled => processed = Ids(popped)
    /\ \A i \in 1..Len(popped) : popped[i].id \notin QueuedIds

\* C17 amended: every removed entry that decodes to a truthy job is passed
\* to process_video_job exactly once, in the call that follows its fetch; no
\* job is processed twice and no removed entry is ever back on the queue,
\* jobs whose processing failed included. A removed entry that is not valid
\* JSON or decodes to a falsy value is consumed and dropped: it is never
\* passed to process_video_job.
C17_DecodedProcessedOnceOthersDropped ==
    /\ NoDuplicates(processed)
    /\ NoDuplicates(Ids(popped))
    /\ Settled => processed = Returned
    /\ ~Settled => (processed = Returned \/ processed = Front(Returned))
    /\ pc = "job_start" => (processed = Front(Returned)
                            /\ job_data.id = Returned[Len(Returned)])
    /\ \A i \in 1..Len(popped) : popped[i].id \notin QueuedIds
    /\ \A i \in 1..Len(Dropped) : Dropped[i].id \notin Range(processed)
    /\ Len(Dropped) + Len(Returned) = Len(popped)

\* the first job was processed and failed, the second entry was removed and
\* dropped, and the script went on to shutdown
C17_Witness ==
    /\ pc = "shutdown"
    /\ Len(popped) = 2
    /\ Len(Dropped) = 1
    /\ Len(processed) = 1
    /\ finished = processed
    /\ submitted = <<>>

\* ------------------------------------------------------------------------
\* C18
\* ------------------------------------------------------------------------
CleanupDone == calc.op = "cleanup" /\ calc.done

\* the listed paths that exist when cleanup_files is called
ListedExisting == (Range(calc.file_list) \ {NoPath}) \cap calc.d

LoggedAt(level) ==
    {calc.out.log[i].path : i \in {k \in 1..Len(calc.out.log) :
                                     calc.out.log[k].level = level}}

\* C18: cleanup_files never raises; a listed path that is falsy or does not
\* exist is skipped without an error line; a removal that fails is logged as
\* an error; and every listed file whose removal does not fail is removed,
\* wherever in the list the failing ones are. Nothing unlisted is removed.
C18_CleanupNeverRaises ==
    CleanupDone =>
        /\ calc.out.exc = "none"
        /\ \A f \in ListedExisting \ DOMAIN calc.bad : f \notin calc.out.disk
        /\ LoggedAt("error") = ListedExisting \cap DOMAIN calc.bad
        /\ LoggedAt("info") = ListedExisting \ DOMAIN calc.bad
        /\ LoggedAt("error") \cup LoggedAt("info") \subseteq ListedExisting
        /\ calc.out.disk \subseteq calc.d
        /\ calc.d \ calc.out.disk \subseteq ListedExisting
        /\ \A f \in ListedExisting \cap DOMAIN calc.bad :
              calc.bad[f] # "FileNotFoundError" => f \in calc.out.disk

\* a removal failed before a later listed file, which was still removed; the
\* list also held a falsy entry
C18_Witness ==
    /\ CleanupDone
    /\ Len(calc.file_list) = 3
    /\ calc.file_list[1] = MediaPath(1)
    /\ calc.file_list[2] = NoPath
    /\ calc.file_list[3] = OutputPath(1)
    /\ calc.d = {MediaPath(1), OutputPath(1)}
    /\ DOMAIN calc.bad = {MediaPath(1)}
    /\ calc.bad[MediaPath(1)] = "PermissionError"
    /\ calc.out.disk = {MediaPath(1)}
    /\ calc.out.exc = "none"

\* ------------------------------------------------------------------------
\* C19
\* ------------------------------------------------------------------------
\* the stop request is posted in this step
StopPosted == stopRequests' # stopRequests

\* C19: the stop request is sent only after the lookup succeeded, once, and
\* with the id the lookup returned; when the lookup fails the function is
\* left without a stop request; the lookup is made at most once and its
\* result never replaced.
C19_StopOnlyWithLookedUpId ==
    /\ [](stopRequests # <<>> =>
            (stopRequests = <<deployment_id>> /\ deployment_id \in DeploymentIds))
    /\ [](pc = "stop_send" => (deployment_id \in DeploymentIds /\ stopRequests = <<>>))
    /\ [](stopCalls <= 1)
    /\ [][StopPosted => (pc = "stop_send" /\ stopRequests = <<>>
                         /\ stopRequests' = <<deployment_id>>
                         /\ pc' \in {"exiting", "crashed"})]_vars
    /\ [][(pc = "shutdown" /\ pc' # pc /\ deployment_id' \notin DeploymentIds)
            => (pc' \in {"exiting", "crashed"} /\ ~StopPosted)]_vars
    /\ [][deployment_id' # deployment_id
            => (pc = "shutdown" /\ deployment_id \notin DeploymentIds
                /\ stopCalls = 0)]_vars
    /\ [][(pc = "exiting" \/ pc = "exited")
            => (~StopPosted /\ stopCalls' = stopCalls)]_vars

\* the lookup returned the second id, the stop request was posted with it and
\* failed, and the function has returned
C19_Witness ==
    /\ pc = "exited"
    /\ deployment_id = 2
    /\ stopRequests = <<2>>
    /\ stopCalls = 1

====
